---- MODULE Spec2Model ----
(***************************************************************************)
(* TalentBridge (src/app.py): the text classifier, the retrieval engine    *)
(* (rag_search and its two ranking backends), the event-planning engine    *)
(* and the plan-chat route, as a state machine over the catalog file.      *)
(*                                                                         *)
(* Strings are sequences of one-character strings, so that substring       *)
(* tests, case folding and the regular expressions of the source are       *)
(* computed character by character.                                        *)
(***************************************************************************)
EXTENDS Integers, Sequences, FiniteSets, TLC

(***************************************************************************)
(* Bounds of the model.                                                    *)
(***************************************************************************)
\* The largest number of fragments a generated text is made of.
MaxFrags == 2

\* Python's None, for the optional integer results.
None == -1

\* The element of a one-element set.  Only({e : x \in {v}}) is e with the
\* local variable x assigned the value of v, which is computed once.
Only(S) == CHOOSE y \in S : TRUE

(***************************************************************************)
(* Characters and the str methods the source uses.                         *)
(***************************************************************************)
DigitChars == <<"0","1","2","3","4","5","6","7","8","9">>

UpperChars == <<"A","B","C","D","E","F","G","H","I","J","K","L","M","N","O","P","Q","R","S","T","U","V","W","X","Y","Z">>

LowerChars == <<"a","b","c","d","e","f","g","h","i","j","k","l","m","n","o","p","q","r","s","t","u","v","w","x","y","z">>

IsDigit(c) == c \in {"0", "1", "2", "3", "4", "5", "6", "7", "8", "9"}

DigitVal(c) == (CHOOSE i \in 1..10 : DigitChars[i] = c) - 1

IsNumChar(c) == IsDigit(c) \/ c = ","

IsSpace(c) == c = " "

lower_char(c) ==
    IF \E i \in 1..26 : UpperChars[i] = c
    THEN LowerChars[CHOOSE i \in 1..26 : UpperChars[i] = c]
    ELSE c

upper_char(c) ==
    IF \E i \in 1..26 : LowerChars[i] = c
    THEN UpperChars[CHOOSE i \in 1..26 : LowerChars[i] = c]
    ELSE c

\* str.lower()
lower(s) == [i \in 1..Len(s) |-> lower_char(s[i])]

\* str.capitalize(): first character upper-cased, the rest lower-cased
capitalize(s) ==
    [i \in 1..Len(s) |-> IF i = 1 THEN upper_char(s[i]) ELSE lower_char(s[i])]

\* s[i], or the empty string (which equals no character) outside the text
CharAt(s, i) == IF i >= 1 /\ i <= Len(s) THEN s[i] ELSE ""

\* whether w occurs in s starting at position i
StartsAt(s, w, i) ==
    /\ i >= 1
    /\ i + Len(w) - 1 <= Len(s)
    /\ \A j \in 1..Len(w) : s[i + j - 1] = w[j]

\* Python's  w in s
Contains(s, w) == \E i \in 1..Len(s) : StartsAt(s, w, i)

\* Python's  any(w in s for w in words), words a sequence of strings
AnyIn(words, s) == \E n \in 1..Len(words) : Contains(s, words[n])

\* str.replace(",", "")
StripCommas(s) == SelectSeq(s, LAMBDA c : c # ",")

\* int(raw) of a string of decimal digits
RECURSIVE int(_)
int(raw) ==
    IF raw = <<>> THEN 0
    ELSE 10 * int(SubSeq(raw, 1, Len(raw) - 1)) + DigitVal(raw[Len(raw)])

\* The position after the longest run of [\d,] characters that starts at i.
RECURSIVE NumRunEnd(_, _)
NumRunEnd(s, i) == IF IsNumChar(CharAt(s, i)) THEN NumRunEnd(s, i + 1) ELSE i

\* The position after the longest run of \s characters that starts at i.
RECURSIVE SpaceRunEnd(_, _)
SpaceRunEnd(s, i) == IF IsSpace(CharAt(s, i)) THEN SpaceRunEnd(s, i + 1) ELSE i

\* whether w, a lower-case word, occurs in s at position i, ignoring case
StartsAtIgnoreCase(s, w, i) ==
    /\ i >= 1
    /\ i + Len(w) - 1 <= Len(s)
    /\ \A j \in 1..Len(w) : lower_char(s[i + j - 1]) = w[j]

\* one of the lower-case words starts at position i of s, ignoring case
WordAt(words, s, i) == \E n \in 1..Len(words) : StartsAtIgnoreCase(s, words[n], i)

(***************************************************************************)
(* Text classifier: extract_budget_from_text (src/app.py 384-401).         *)
(* Each pattern is a matcher "matches at position i" plus the extent of    *)
(* its group 1; re.IGNORECASE is the case folding of the letters.          *)
(***************************************************************************)
IsK(c) == lower_char(c) = "k"

CurrencyWords == << <<"d","o","l","l","a","r">>, <<"u","s","d">>, <<"b","u","d","g","e","t">> >>

\* r'\$(\d[\d,]*)[kK]'
Pat1At(s, i) ==
    /\ s[i] = "$"
    /\ IsDigit(CharAt(s, i + 1))
    /\ IsK(CharAt(s, NumRunEnd(s, i + 1)))

\* r'(\d[\d,]*)[kK]\s*(?:dollar|usd|budget)?'
Pat2At(s, i) ==
    /\ IsDigit(s[i])
    /\ IsK(CharAt(s, NumRunEnd(s, i)))

\* r'\$(\d[\d,]*)'
Pat3At(s, i) ==
    /\ s[i] = "$"
    /\ IsDigit(CharAt(s, i + 1))

\* r'(\d[\d,]{2,})\s*(?:dollar|usd|budget)'
Pat4At(s, i) ==
    /\ IsDigit(s[i])
    /\ NumRunEnd(s, i) - i >= 3
    /\ WordAt(CurrencyWords, s, SpaceRunEnd(s, NumRunEnd(s, i)))

\* r'budget\s+(?:of|is|:)?\s*\$?(\d[\d,]*)': where group 1 starts when the
\* pattern matches at i, 0 when it does not match there
Pat5Group(s, i) ==
    IF ~(StartsAtIgnoreCase(s, <<"b","u","d","g","e","t">>, i) /\ IsSpace(CharAt(s, i + 6))) THEN 0
    ELSE LET f == SpaceRunEnd(s, i + 6)
             g == IF WordAt(<< <<"o","f">>, <<"i","s">>, <<":">> >>, s, f)
                  THEN (IF CharAt(s, f) = ":" THEN f + 1 ELSE f + 2)
                  ELSE f
             h == SpaceRunEnd(s, g)
             d == IF CharAt(s, h) = "$" THEN h + 1 ELSE h
         IN  IF IsDigit(CharAt(s, d)) THEN d ELSE 0

Pat5At(s, i) == Pat5Group(s, i) # 0

PatAt(n, s, i) ==
    CASE n = 1 -> Pat1At(s, i)
      [] n = 2 -> Pat2At(s, i)
      [] n = 3 -> Pat3At(s, i)
      [] n = 4 -> Pat4At(s, i)
      [] OTHER -> Pat5At(s, i)

\* re.search(pattern n, s): the leftmost position from i on at which the
\* pattern matches, 0 if there is none
RECURSIVE Search(_, _, _)
Search(n, s, i) ==
    IF i > Len(s) THEN 0
    ELSE IF PatAt(n, s, i) THEN i
    ELSE Search(n, s, i + 1)

\* where group 1 starts when pattern n matches at i
GroupStart(n, s, i) ==
    CASE n \in {1, 3} -> i + 1
      [] n \in {2, 4} -> i
      [] OTHER -> Pat5Group(s, i)

\* m.group(1) of pattern n matched against s, <<>> when re.search finds nothing
BudgetGroup(n, s) ==
    Only({ IF i = 0 THEN <<>>
        ELSE Only({ SubSeq(s, g, NumRunEnd(s, g) - 1)
            : g \in {GroupStart(n, s, i)} })
        : i \in {Search(n, s, 1)} })

\* is_k of the n-th pattern
IsKPattern(n) == n \in {1, 2}

\* the loop over the patterns, from pattern n on
RECURSIVE BudgetFrom(_, _)
BudgetFrom(n, text) ==
    IF n > 5 THEN None
    ELSE Only({ Only({ IF raw # <<>> /\ val >= 100 THEN val ELSE BudgetFrom(n + 1, text)
             : val \in {IF IsKPattern(n) THEN int(raw) * 1000 ELSE int(raw)} })
        : raw \in {StripCommas(BudgetGroup(n, text))} })

extract_budget_from_text(text) == BudgetFrom(1, text)

(***************************************************************************)
(* detect_event_type (src/app.py 366-382)                                  *)
(***************************************************************************)
WeddingWords == << <<"w","e","d","d","i","n","g">>, <<"m","a","r","r","i","a","g","e">>, <<"b","r","i","d","e">>, <<"g","r","o","o","m">>, <<"n","u","p","t","i","a","l">> >>

CorporateWords ==
    << <<"c","o","r","p","o","r","a","t","e">>, <<"c","o","m","p","a","n","y">>, <<"o","f","f","i","c","e">>, <<"c","o","n","f","e","r","e","n","c","e">>, <<"b","u","s","i","n","e","s","s">>, <<"l","a","u","n","c","h">>,
       <<"p","r","o","d","u","c","t"," ","l","a","u","n","c","h">> >>

BirthdayWords == << <<"b","i","r","t","h","d","a","y">>, <<"b","d","a","y">>, <<"b","i","r","t","h"," ","d","a","y">> >>

FestivalWords == << <<"f","e","s","t","i","v","a","l">>, <<"f","e","s","t">>, <<"m","u","s","i","c"," ","f","e","s","t","i","v","a","l">> >>

GalaWords == << <<"g","a","l","a">>, <<"c","h","a","r","i","t","y">>, <<"f","u","n","d","r","a","i","s","e","r">>, <<"a","w","a","r","d">>, <<"b","l","a","c","k"," ","t","i","e">> >>

ConcertWords == << <<"c","o","n","c","e","r","t">>, <<"l","i","v","e"," ","s","h","o","w">>, <<"p","e","r","f","o","r","m","a","n","c","e"," ","n","i","g","h","t">> >>

PartyWords == << <<"p","a","r","t","y">>, <<"c","e","l","e","b","r","a","t","i","o","n">>, <<"g","e","t"," ","t","o","g","e","t","h","e","r">>, <<"h","o","u","s","e"," ","p","a","r","t","y">> >>

\* a detect_event_type that tests the corporate keywords before the wedding ones
detect_event_type_corporate_first(text) ==
    Only({ IF AnyIn(CorporateWords, t) THEN "corporate"
        ELSE IF AnyIn(WeddingWords, t) THEN "wedding"
        ELSE IF AnyIn(BirthdayWords, t) THEN "birthday"
        ELSE IF AnyIn(FestivalWords, t) THEN "festival"
        ELSE IF AnyIn(GalaWords, t) THEN "gala"
        ELSE IF AnyIn(ConcertWords, t) THEN "concert"
        ELSE IF AnyIn(PartyWords, t) THEN "party"
        ELSE "default"
        : t \in {lower(text)} })

detect_event_type(text) ==
    Only({ IF AnyIn(WeddingWords, t) THEN "wedding"
        ELSE IF AnyIn(CorporateWords, t) THEN "corporate"
        ELSE IF AnyIn(BirthdayWords, t) THEN "birthday"
        ELSE IF AnyIn(FestivalWords, t) THEN "festival"
        ELSE IF AnyIn(GalaWords, t) THEN "gala"
        ELSE IF AnyIn(ConcertWords, t) THEN "concert"
        ELSE IF AnyIn(PartyWords, t) THEN "party"
        ELSE "default"
        : t \in {lower(text)} })

(***************************************************************************)
(* is_event_plan_request (src/app.py 403-413)                              *)
(***************************************************************************)
plan_kw ==
    << <<"p","l","a","n">>, <<"p","l","a","n","n","i","n","g">>, <<"o","r","g","a","n","i","z","e">>, <<"h","e","l","p"," ","m","e">>, <<"b","u","d","g","e","t">>, <<"b","r","e","a","k","d","o","w","n">>,
       <<"s","c","h","e","d","u","l","e">>, <<"t","i","m","e","l","i","n","e">>, <<"p","r","e","p","a","r","e">>, <<"a","r","r","a","n","g","e">>, <<"f","u","l","l"," ","p","l","a","n">>, <<"c","o","m","p","l","e","t","e">>,
       <<"h","o","w"," ","m","u","c","h">>, <<"w","h","a","t"," ","d","o"," ","i"," ","n","e","e","d">>, <<"g","u","i","d","e">>, <<"c","h","e","c","k","l","i","s","t">> >>

event_kw ==
    << <<"w","e","d","d","i","n","g">>, <<"p","a","r","t","y">>, <<"c","o","r","p","o","r","a","t","e">>, <<"b","i","r","t","h","d","a","y">>, <<"f","e","s","t","i","v","a","l">>, <<"g","a","l","a">>,
       <<"c","o","n","c","e","r","t">>, <<"e","v","e","n","t">>, <<"c","e","l","e","b","r","a","t","i","o","n">>, <<"c","e","r","e","m","o","n","y">> >>

is_event_plan_request(text) ==
    Only({ LET has_plan   == AnyIn(plan_kw, t)
            has_event  == AnyIn(event_kw, t)
            has_budget == extract_budget_from_text(text) # None
        IN  (has_plan /\ has_event) \/ (has_event /\ has_budget)
        : t \in {lower(text)} })

(***************************************************************************)
(* extract_filters (src/app.py 131-154).  A filter set is a function whose *)
(* domain is the set of keys present.                                      *)
(***************************************************************************)
cities ==
    << <<"n","e","w"," ","y","o","r","k">>, <<"c","h","i","c","a","g","o">>, <<"l","o","s"," ","a","n","g","e","l","e","s">>, <<"h","o","u","s","t","o","n">>, <<"m","i","a","m","i">>, <<"a","t","l","a","n","t","a">>,
       <<"d","a","l","l","a","s">>, <<"s","e","a","t","t","l","e">>, <<"b","o","s","t","o","n">>, <<"n","a","s","h","v","i","l","l","e">>, <<"l","a","s"," ","v","e","g","a","s">>, <<"d","e","t","r","o","i","t">>,
       <<"n","e","w"," ","o","r","l","e","a","n","s">>, <<"s","a","n"," ","f","r","a","n","c","i","s","c","o">> >>

cats ==
    << <<"s","i","n","g","e","r">>, <<"d","a","n","c","e","r">>, <<"m","u","s","i","c","i","a","n">>, <<"p","a","i","n","t","e","r">>, <<"p","h","o","t","o","g","r","a","p","h","e","r">>, <<"d","j">>,
       <<"p","e","r","f","o","r","m","e","r">> >>

\* the first entry of words, from the n-th on, that occurs in s, 0 if none
\* (for ... if ... break)
RECURSIVE FirstInFrom(_, _, _)
FirstInFrom(words, s, n) ==
    IF n > Len(words) THEN 0
    ELSE IF Contains(s, words[n]) THEN n
    ELSE FirstInFrom(words, s, n + 1)

FirstIn(words, s) == FirstInFrom(words, s, 1)

EmptyFilters == [k \in {} |-> 0]

\* r'\$(\d[\d,]*)[kK]?' : the max_budget entry, or no entry
BudgetFilter(text) ==
    Only({ IF i = 0 THEN EmptyFilters
        ELSE Only({ Only({ Only({ IF val >= 100 THEN "max_budget" :> val ELSE EmptyFilters
                 : val \in {IF IsK(CharAt(text, e)) THEN int(raw) * 1000 ELSE int(raw)} })
                 : raw \in {StripCommas(SubSeq(text, i + 1, e - 1))} })
            : e \in {NumRunEnd(text, i + 1)} })
        : i \in {Search(3, text, 1)} })

CityFilter(text) ==
    Only({ Only({ IF n = 0 THEN EmptyFilters ELSE "city" :> cities[n]
        : n \in {FirstIn(cities, t)} })
        : t \in {lower(text)} })

CategoryFilter(text) ==
    Only({ Only({ IF n = 0 THEN EmptyFilters ELSE "category" :> capitalize(cats[n])
        : n \in {FirstIn(cats, t)} })
        : t \in {lower(text)} })

extract_filters(text) ==
    BudgetFilter(text) @@ CityFilter(text) @@ CategoryFilter(text)

(***************************************************************************)
(* extract_event_name (src/app.py 415-437).  Each pattern is a prefix, a   *)
(* lazy group ([\w\s]+?) and a terminator.  The prefix ends in greedy      *)
(* white space that the matcher gives back one character at a time when    *)
(* the rest fails, so a prefix yields the group starts to try, in the      *)
(* order the matcher tries them.                                           *)
(***************************************************************************)
IsLetter(c) == \E i \in 1..26 : UpperChars[i] = c \/ LowerChars[i] = c

\* [\w\s]
IsWordOrSpace(c) == IsLetter(c) \/ IsDigit(c) \/ c = "_" \/ IsSpace(c)

\* hi, hi - 1, ..., lo
Down(hi, lo) == [k \in 1..(hi - lo + 1) |-> hi - k + 1]

\* word\s+ at position i: the position after the white space, 0 if no match
LitWs(s, i, word) ==
    IF StartsAtIgnoreCase(s, word, i) /\ IsSpace(CharAt(s, i + Len(word)))
    THEN SpaceRunEnd(s, i + Len(word))
    ELSE 0

\* which of the words matches word\s+ at position i, from the n-th on, 0 if none
RECURSIVE AltFrom(_, _, _, _)
AltFrom(s, i, words, n) ==
    IF n > Len(words) THEN 0
    ELSE IF LitWs(s, i, words[n]) # 0 THEN n
    ELSE AltFrom(s, i, words, n + 1)

\* (?:w1|w2|...)\s+ at position i: the group starts to try
AltWs(s, i, words) ==
    Only({ IF n = 0 THEN <<>>
        ELSE Down(LitWs(s, i, words[n]), i + Len(words[n]) + 1)
        : n \in {AltFrom(s, i, words, 1)} })

\* (?:\s+w1|\s+w2|...|$) at position e
TermAt(words, s, e) ==
    \/ e = Len(s) + 1
    \/ IsSpace(CharAt(s, e)) /\ WordAt(words, s, SpaceRunEnd(s, e))

\* the end of the lazy group that starts at g, tried from e on: the least
\* end at which the terminator matches, 0 if none
RECURSIVE GroupEndFrom(_, _, _)
GroupEndFrom(words, s, e) ==
    IF e > Len(s) + 1 \/ ~IsWordOrSpace(CharAt(s, e - 1)) THEN 0
    ELSE IF TermAt(words, s, e) THEN e
    ELSE GroupEndFrom(words, s, e + 1)

GroupEnd(words, s, g) == GroupEndFrom(words, s, g + 1)

\* r'(?:for\s+(?:a|my|our|the)\s+)...'
NamePrefix1(s, i) == AltWs(s, LitWs(s, i, <<"f","o","r">>), << <<"a">>, <<"m","y">>, <<"o","u","r">>, <<"t","h","e">> >>)

\* r'(?:planning\s+(?:a|my|our)\s+)...'
NamePrefix2(s, i) == AltWs(s, LitWs(s, i, <<"p","l","a","n","n","i","n","g">>), << <<"a">>, <<"m","y">>, <<"o","u","r">> >>)

\* r'(?:help\s+me\s+(?:plan|organize)\s+(?:a|my)?\s*)...'
NamePrefix3(s, i) ==
    Only({ IF verb = <<>> THEN <<>>
        ELSE LET c == verb[1]
                 d == IF StartsAtIgnoreCase(s, <<"a">>, c) THEN c + 1
                      ELSE IF StartsAtIgnoreCase(s, <<"m","y">>, c) THEN c + 2
                      ELSE 0
             IN  (IF d = 0 THEN <<>> ELSE Down(SpaceRunEnd(s, d), d)) \o verb
        : verb \in {AltWs(s, LitWs(s, LitWs(s, i, <<"h","e","l","p">>), <<"m","e">>), << <<"p","l","a","n">>, <<"o","r","g","a","n","i","z","e">> >>)} })

\* r'(?:organizing\s+(?:a|my|our)\s+)...'
NamePrefix4(s, i) == AltWs(s, LitWs(s, i, <<"o","r","g","a","n","i","z","i","n","g">>), << <<"a">>, <<"m","y">>, <<"o","u","r">> >>)

NamePrefix(n, s, i) ==
    CASE n = 1 -> NamePrefix1(s, i)
      [] n = 2 -> NamePrefix2(s, i)
      [] n = 3 -> NamePrefix3(s, i)
      [] OTHER -> NamePrefix4(s, i)

NameTerms(n) ==
    CASE n = 1 -> << <<"w","i","t","h">>, <<"b","u","d","g","e","t">>, <<"o","f">>, <<"e","v","e","n","t">>, <<"o","n">> >>
      [] n = 2 -> << <<"w","i","t","h">>, <<"b","u","d","g","e","t">>, <<"o","f">> >>
      [] OTHER -> << <<"w","i","t","h">>, <<"b","u","d","g","e","t">> >>

\* the group starts at which pattern n, matched at i, can be completed
NameStarts(n, s, i) ==
    SelectSeq(NamePrefix(n, s, i), LAMBDA g : GroupEnd(NameTerms(n), s, g) # 0)

\* re.search(pattern n, s): the leftmost position from i on at which the
\* pattern matches, 0 if there is none
RECURSIVE NameSearch(_, _, _)
NameSearch(n, s, i) ==
    IF i > Len(s) THEN 0
    ELSE IF NameStarts(n, s, i) # <<>> THEN i
    ELSE NameSearch(n, s, i + 1)

\* m.group(1) of pattern n; <<"">> stands for "no match"
NameGroup(n, s) ==
    Only({ IF i = 0 THEN <<"">>
        ELSE Only({ SubSeq(s, g, GroupEnd(NameTerms(n), s, g) - 1)
            : g \in {NameStarts(n, s, i)[1]} })
        : i \in {NameSearch(n, s, 1)} })

\* str.strip()
RECURSIVE strip(_)
strip(s) ==
    IF s # <<>> /\ IsSpace(s[1]) THEN strip(Tail(s))
    ELSE IF s # <<>> /\ IsSpace(s[Len(s)]) THEN strip(SubSeq(s, 1, Len(s) - 1))
    ELSE s

\* str.rstrip("., ")
RECURSIVE rstrip_dots(_)
rstrip_dots(s) ==
    IF s # <<>> /\ s[Len(s)] \in {".", ",", " "}
    THEN rstrip_dots(SubSeq(s, 1, Len(s) - 1))
    ELSE s

\* str.title(): a letter is upper-cased after a non-letter, lower-cased otherwise
title(s) ==
    [i \in 1..Len(s) |->
        IF i = 1 \/ ~IsLetter(s[i - 1]) THEN upper_char(s[i]) ELSE lower_char(s[i])]

event_words ==
    << <<<<"w","e","d","d","i","n","g">>, <<"W","e","d","d","i","n","g">>>>, <<<<"b","i","r","t","h","d","a","y">>, <<"B","i","r","t","h","d","a","y"," ","P","a","r","t","y">>>>,
       <<<<"c","o","r","p","o","r","a","t","e">>, <<"C","o","r","p","o","r","a","t","e"," ","E","v","e","n","t">>>>, <<<<"f","e","s","t","i","v","a","l">>, <<"M","u","s","i","c"," ","F","e","s","t","i","v","a","l">>>>,
       <<<<"g","a","l","a">>, <<"G","a","l","a"," ","E","v","e","n","i","n","g">>>>, <<<<"c","o","n","c","e","r","t">>, <<"C","o","n","c","e","r","t"," ","N","i","g","h","t">>>>,
       <<<<"p","a","r","t","y">>, <<"P","a","r","t","y">>>> >>

\* the loop over event_words, then the literal "Your Event"
EventLabel(text) ==
    Only({ Only({ IF n = 0 THEN <<"Y","o","u","r"," ","E","v","e","n","t">> ELSE event_words[n][2]
        : n \in {FirstIn([k \in 1..Len(event_words) |-> event_words[k][1]], tl)} })
        : tl \in {lower(text)} })

\* the loop over the patterns, from pattern n on
RECURSIVE NameFrom(_, _)
NameFrom(n, text) ==
    IF n > 4 THEN EventLabel(text)
    ELSE Only({ Only({ Only({ IF g # <<"">> /\ 2 < Len(name) /\ Len(name) < 60 THEN name
             ELSE NameFrom(n + 1, text)
             : name \in {title(stripped)} })
             : stripped \in {rstrip_dots(strip(g))} })
        : g \in {NameGroup(n, text)} })

extract_event_name(text) == NameFrom(1, text)

(***************************************************************************)
(* State.  A provider record keeps the fields the engines read: id,        *)
(* category, location, price_min and rating (in tenths: 49 is 4.9).        *)
(* Similarity scores are in thousandths: 876 is 0.876.                     *)
(***************************************************************************)
VARIABLES
    artists_file,      \* the list stored in artists.json
    file_ok,           \* whether artists.json can be opened and parsed
    model_ok,          \* whether the embedding model loads and encodes
    phase,             \* "boot" before the startup block has run, then "serving"
    index_built,       \* _index is not None
    artists_for_rag,   \* _artists_for_rag, the snapshot the index was built from
    op,                \* the operation whose result is pending, "idle" if none
    arg,               \* its input
    ret,               \* its result
    users_file,        \* the list stored in users.json
    requests           \* the POST /build-profile requests served concurrently

vars ==
    << artists_file, file_ok, model_ok, phase, index_built, artists_for_rag,
       op, arg, ret, users_file, requests >>

\* Two POST /build-profile requests are served by two threads of the server.
Requests == {1, 2}

\* no request has arrived
NoRequests == [w \in Requests |-> [pc |-> "start"]]

\* Profiles are created while the catalog file holds fewer records than this.
MaxCatalog == 3

\* The largest top_k a search is called with.
MaxTopK == 2

\* The scores the embedding model may give a (query, provider) pair.
ScoreValues == {876, 1000}

Min(a, b) == IF a <= b THEN a ELSE b

Range(s) == {s[i] : i \in 1..Len(s)}

\* s[:k]
Take(s, k) == SubSeq(s, 1, Min(k, Len(s)))

Artist(id, category, city, region, price_min, rating) ==
    [id |-> id, category |-> category, location |-> city \o <<","," ">> \o region,
     price_min |-> price_min, rating |-> rating]

(***************************************************************************)
(* load_artists / save_artists (src/app.py 71-77).  A call that can raise  *)
(* yields a record whose field raised tells whether it did.                *)
(***************************************************************************)
Raise == [raised |-> TRUE]

Value(v) == [raised |-> FALSE, value |-> v]

load_artists == IF file_ok THEN Value(artists_file) ELSE Raise

(***************************************************************************)
(* cosine_search (src/app.py 120-129).  scores[i] is the cosine of the     *)
(* query and artists[i]; argsort is one of the ascending orders numpy's    *)
(* default (unstable) sort can return: any order among equal scores.       *)
(***************************************************************************)
IsArgsort(scores, perm) ==
    \A i, j \in DOMAIN scores : i < j => scores[perm[i]] <= scores[perm[j]]

Argsorts(scores) ==
    {perm \in Permutations(DOMAIN scores) : IsArgsort(scores, perm)}

\* the ascending order cut without being reversed
TopOfAscending(argsort, top_k) == [j \in 1..Min(top_k, Len(argsort)) |-> argsort[j]]

\* np.argsort(scores)[::-1][:top_k]
TopOf(argsort, top_k) ==
    LET n == Len(argsort)
    IN  [j \in 1..Min(top_k, n) |-> argsort[n - j + 1]]

cosine_search(scores, argsort, top_k) ==
    IF ~file_ok \/ ~model_ok THEN Raise
    ELSE LET top == TopOf(argsort, top_k)
         IN  Value([j \in 1..Len(top) |->
                       [artist |-> artists_file[top[j]], score |-> scores[top[j]]]])

(***************************************************************************)
(* apply_filters (src/app.py 156-168)                                      *)
(***************************************************************************)
HasKey(filters, k) == k \in DOMAIN filters

FilterOk(artist, filters) ==
    /\ ~(HasKey(filters, "max_budget") /\ artist.price_min > filters["max_budget"])
    /\ ~(HasKey(filters, "city") /\ ~Contains(lower(artist.location), filters["city"]))
    /\ ~(HasKey(filters, "category")
            /\ lower(artist.category) # lower(filters["category"]))

apply_filters(results, filters) ==
    LET out == SelectSeq(results, LAMBDA r : FilterOk(r.artist, filters))
    IN  IF out # <<>> THEN out ELSE results

(***************************************************************************)
(* rag_search (src/app.py 170-189).  filters is extract_filters(query)     *)
(* (line 174), which the caller evaluates once per query.  With the index, *)
(* scores and argsort range over the snapshot and the index returns the    *)
(* min(3 top_k, size) best in descending order; without it they range over *)
(* the stored file.  The field degraded records which return statement     *)
(* ran.                                                                    *)
(***************************************************************************)
IndexSearch(scores, argsort, k) ==
    LET top == TopOf(argsort, k)
    IN  [j \in 1..Len(top) |->
            [artist |-> artists_for_rag[top[j]], score |-> scores[top[j]]]]

\* the except branch: the first top_k stored records with score 0.5
RagFallback(top_k) ==
    IF load_artists.raised THEN Raise
    ELSE Value([results |-> [j \in 1..Min(top_k, Len(artists_file)) |->
                                [artist |-> artists_file[j], score |-> 500]],
                filters |-> EmptyFilters,
                degraded |-> TRUE])

\* lines 175-183: the oversampled ranking
RankCandidates(top_k, scores, argsort) ==
    IF index_built
    THEN Value(IndexSearch(scores, argsort, Min(top_k * 3, Len(artists_for_rag))))
    ELSE cosine_search(scores, argsort, top_k * 3)

\* the filtered list alone, with no return to the unfiltered one
FilterOnly(results, filters, top_k) ==
    Take(SelectSeq(results, LAMBDA r : FilterOk(r.artist, filters)), top_k)

\* the list cut to top_k before it is filtered
TruncateAndFilter(results, filters, top_k) == apply_filters(Take(results, top_k), filters)

\* lines 184-185
FilterAndTruncate(results, filters, top_k) ==
    LET filtered == Take(apply_filters(results, filters), top_k)
    IN  IF filtered # <<>> THEN filtered ELSE Take(results, top_k)

rag_search(filters, top_k, scores, argsort) ==
    IF ~model_ok THEN RagFallback(top_k)
    ELSE Only({ IF ranked.raised THEN RagFallback(top_k)
             ELSE Value([results  |-> FilterAndTruncate(ranked.value, filters, top_k),
                         filters  |-> filters,
                         degraded |-> FALSE])
        : ranked \in {RankCandidates(top_k, scores, argsort)} })

\* the collection a search ranks: the snapshot if the index is built
Ranked == IF index_built THEN artists_for_rag ELSE artists_file

\* every (scores, argsort) the embedding model and the sort can produce on a
\* collection
RankingsOf(collection) ==
    UNION { {<<scores, argsort>> : argsort \in Argsorts(scores)} :
            scores \in [1..Len(collection) -> ScoreValues] }

\* a call that fails before it ranks has no ranking
NoRanking == << <<>>, <<>> >>

\* the rankings of a rag_search call: it ranks if the model works and the
\* collection can be read
Rankings ==
    IF model_ok /\ (index_built \/ file_ok) THEN RankingsOf(Ranked) ELSE {NoRanking}

(***************************************************************************)
(* Planning engine: BUDGET_TEMPLATES (src/app.py 195-260), weights in      *)
(* hundredths, in insertion order.  The emoji that starts each label in    *)
(* the source is left out: it holds no letter.                             *)
(***************************************************************************)
Entry(label, pct) == [label |-> label, pct |-> pct]

BUDGET_TEMPLATES ==
    [wedding |->
        << Entry(<<"V","e","n","u","e"," ","&"," ","D","e","c","o","r">>, 30), Entry(<<"C","a","t","e","r","i","n","g"," ","&"," ","D","r","i","n","k","s">>, 25),
           Entry(<<"E","n","t","e","r","t","a","i","n","m","e","n","t">>, 20), Entry(<<"P","h","o","t","o","g","r","a","p","h","y"," ","&"," ","V","i","d","e","o">>, 10),
           Entry(<<"F","l","o","w","e","r","s"," ","&"," ","S","t","y","l","i","n","g">>, 7), Entry(<<"I","n","v","i","t","a","t","i","o","n","s"," ","&"," ","M","i","s","c">>, 5),
           Entry(<<"C","o","n","t","i","n","g","e","n","c","y"," ","B","u","f","f","e","r">>, 3) >>,
     corporate |->
        << Entry(<<"V","e","n","u","e"," ","&"," ","A","V"," ","S","e","t","u","p">>, 35), Entry(<<"C","a","t","e","r","i","n","g">>, 25),
           Entry(<<"E","n","t","e","r","t","a","i","n","m","e","n","t">>, 15), Entry(<<"P","h","o","t","o","g","r","a","p","h","y","/","V","i","d","e","o">>, 10),
           Entry(<<"B","r","a","n","d","i","n","g"," ","&"," ","S","i","g","n","a","g","e">>, 8), Entry(<<"L","o","g","i","s","t","i","c","s"," ","&"," ","M","i","s","c">>, 7) >>,
     birthday |->
        << Entry(<<"V","e","n","u","e">>, 25), Entry(<<"F","o","o","d"," ","&"," ","D","r","i","n","k","s">>, 30),
           Entry(<<"E","n","t","e","r","t","a","i","n","m","e","n","t">>, 20), Entry(<<"P","h","o","t","o","g","r","a","p","h","y">>, 8),
           Entry(<<"C","a","k","e"," ","&"," ","D","e","s","s","e","r","t","s">>, 10), Entry(<<"D","e","c","o","r","a","t","i","o","n","s">>, 7) >>,
     festival |->
        << Entry(<<"S","t","a","g","e"," ","&"," ","S","o","u","n","d">>, 30), Entry(<<"A","r","t","i","s","t","s","/","P","e","r","f","o","r","m","e","r","s">>, 30),
           Entry(<<"S","e","c","u","r","i","t","y"," ","&"," ","S","t","a","f","f","i","n","g">>, 15), Entry(<<"M","a","r","k","e","t","i","n","g">>, 10),
           Entry(<<"F","o","o","d"," ","V","e","n","d","o","r","s">>, 10), Entry(<<"L","o","g","i","s","t","i","c","s">>, 5) >>,
     party |->
        << Entry(<<"V","e","n","u","e">>, 25), Entry(<<"F","o","o","d"," ","&"," ","D","r","i","n","k","s">>, 35),
           Entry(<<"E","n","t","e","r","t","a","i","n","m","e","n","t">>, 20), Entry(<<"P","h","o","t","o","g","r","a","p","h","y">>, 8),
           Entry(<<"D","e","c","o","r","a","t","i","o","n","s">>, 12) >>,
     gala |->
        << Entry(<<"V","e","n","u","e"," ","&"," ","A","m","b","i","a","n","c","e">>, 30), Entry(<<"C","a","t","e","r","i","n","g"," ","(","F","i","n","e"," ","D","i","n","i","n","g",")">>, 28),
           Entry(<<"E","n","t","e","r","t","a","i","n","m","e","n","t">>, 18), Entry(<<"P","h","o","t","o","g","r","a","p","h","y","/","V","i","d","e","o">>, 10),
           Entry(<<"F","l","o","w","e","r","s"," ","&"," ","S","t","y","l","i","n","g">>, 8), Entry(<<"I","n","v","i","t","a","t","i","o","n","s"," ","&"," ","M","i","s","c">>, 6) >>,
     concert |->
        << Entry(<<"A","r","t","i","s","t"," ","B","o","o","k","i","n","g">>, 40), Entry(<<"V","e","n","u","e"," ","&"," ","S","t","a","g","e">>, 25),
           Entry(<<"S","o","u","n","d"," ","&"," ","L","i","g","h","t","i","n","g">>, 15), Entry(<<"M","a","r","k","e","t","i","n","g"," ","&"," ","T","i","c","k","e","t","s">>, 10),
           Entry(<<"S","e","c","u","r","i","t","y"," ","&"," ","S","t","a","f","f">>, 7), Entry(<<"L","o","g","i","s","t","i","c","s">>, 3) >>,
     default |->
        << Entry(<<"V","e","n","u","e">>, 30), Entry(<<"C","a","t","e","r","i","n","g">>, 25),
           Entry(<<"E","n","t","e","r","t","a","i","n","m","e","n","t">>, 20), Entry(<<"P","h","o","t","o","g","r","a","p","h","y">>, 10),
           Entry(<<"D","e","c","o","r","a","t","i","o","n","s">>, 8), Entry(<<"M","i","s","c","e","l","l","a","n","e","o","u","s">>, 7) >>]

\* ARTIST_CATEGORY_FOR_EVENT (src/app.py 317-326)
ARTIST_CATEGORY_FOR_EVENT ==
    [wedding   |-> {<<"S","i","n","g","e","r">>, <<"M","u","s","i","c","i","a","n">>, <<"P","h","o","t","o","g","r","a","p","h","e","r">>, <<"D","J">>, <<"D","a","n","c","e","r">>, <<"P","a","i","n","t","e","r">>},
     corporate |-> {<<"P","e","r","f","o","r","m","e","r">>, <<"D","J">>, <<"M","u","s","i","c","i","a","n">>, <<"P","h","o","t","o","g","r","a","p","h","e","r">>, <<"S","i","n","g","e","r">>},
     birthday  |-> {<<"D","J">>, <<"P","e","r","f","o","r","m","e","r">>, <<"M","u","s","i","c","i","a","n">>, <<"P","h","o","t","o","g","r","a","p","h","e","r">>},
     festival  |-> {<<"S","i","n","g","e","r">>, <<"D","J">>, <<"D","a","n","c","e","r">>, <<"M","u","s","i","c","i","a","n">>, <<"P","e","r","f","o","r","m","e","r">>},
     party     |-> {<<"D","J">>, <<"M","u","s","i","c","i","a","n">>, <<"P","e","r","f","o","r","m","e","r">>, <<"P","h","o","t","o","g","r","a","p","h","e","r">>},
     gala      |-> {<<"S","i","n","g","e","r">>, <<"M","u","s","i","c","i","a","n">>, <<"P","h","o","t","o","g","r","a","p","h","e","r">>, <<"D","a","n","c","e","r">>, <<"P","a","i","n","t","e","r">>},
     concert   |-> {<<"S","i","n","g","e","r">>, <<"D","J">>, <<"M","u","s","i","c","i","a","n">>, <<"D","a","n","c","e","r">>},
     default   |-> {<<"S","i","n","g","e","r">>, <<"D","J">>, <<"M","u","s","i","c","i","a","n">>, <<"P","h","o","t","o","g","r","a","p","h","e","r">>, <<"P","e","r","f","o","r","m","e","r">>}]

(***************************************************************************)
(* round(budget * pct) (src/app.py 449): pct is the IEEE double nearest    *)
(* to p/100, the product is rounded to a double, and round() takes that    *)
(* double to the nearest integer, halves to the even one.                  *)
(* The double of p/100 is p/100 + err / (100 * 2^(52 - exp)), with exp the *)
(* exponent of the double: FloatLiteral gives <<exp, err>>.                *)
(***************************************************************************)
FloatLiteral(p) ==
    CASE p = 3  -> <<-6, -32>>  [] p = 5  -> <<-5, 40>>  [] p = 6  -> <<-5, -32>>
      [] p = 7  -> <<-4, 48>>   [] p = 8  -> <<-4, 12>>  [] p = 10 -> <<-4, 40>>
      [] p = 12 -> <<-4, -32>>  [] p = 15 -> <<-3, -20>> [] p = 18 -> <<-3, -24>>
      [] p = 20 -> <<-3, 40>>   [] p = 25 -> <<-2, 0>>   [] p = 28 -> <<-2, 48>>
      [] p = 30 -> <<-2, -20>>  [] p = 35 -> <<-2, -40>> [] p = 40 -> <<-2, 40>>

RECURSIVE Log2Floor(_)
Log2Floor(n) == IF n <= 1 THEN 0 ELSE 1 + Log2Floor(n \div 2)

Abs(n) == IF n < 0 THEN -n ELSE n

\* a breakdown that drops the fraction instead of rounding
PyTruncMul(budget, p) == (budget * p) \div 100

\* round(budget * (p/100 written as a float literal))
PyRoundMul(budget, p) ==
    LET q   == (budget * p) \div 100
        r   == (budget * p) % 100
        fl  == FloatLiteral(p)
        \* the product is the double q + 0.5 itself when the literal's error,
        \* scaled by the budget, is at most half an ulp of q + 0.5
        exactHalf == Abs(budget * fl[2]) <= 50 * 2 ^ (Log2Floor(q) - fl[1])
    IN  IF r < 50 THEN q
        ELSE IF r > 50 THEN q + 1
        ELSE IF exactHalf THEN (IF q % 2 = 0 THEN q ELSE q + 1)
        ELSE IF fl[2] > 0 THEN q + 1
        ELSE q

\* int(budget * 0.20) (src/app.py 454)
IntFifth(budget) == (budget * 20) \div 100

(***************************************************************************)
(* generate_event_plan (src/app.py 439-479).  event_type is                *)
(* detect_event_type(query + " " + event_name) (line 440), which the       *)
(* caller evaluates once per text.  The timeline and the tips are static   *)
(* texts looked up by event type and are left out of the plan.             *)
(***************************************************************************)
Breakdown(template, budget) ==
    [i \in 1..Len(template) |->
        [label |-> template[i].label, amount |-> PyRoundMul(budget, template[i].pct)]]

IsEntertainment(label) ==
    Contains(lower(label), <<"e","n","t","e","r","t","a","i","n","m","e","n","t">>) \/ Contains(lower(label), <<"a","r","t","i","s","t">>)

\* an entertainment sub-budget that is always a fifth of the budget
EntBudgetFifth(breakdown, budget) == IntFifth(budget)

\* next((v for k, v in breakdown.items() if ...), int(budget * 0.20))
EntBudget(breakdown, budget) ==
    IF \E i \in 1..Len(breakdown) : IsEntertainment(breakdown[i].label)
    THEN breakdown[CHOOSE i \in 1..Len(breakdown) :
                      /\ IsEntertainment(breakdown[i].label)
                      /\ \A j \in 1..(i - 1) : ~IsEntertainment(breakdown[j].label)].amount
    ELSE IntFifth(budget)

\* a descending sort that is an ascending sort reversed: equal ratings come
\* out in reverse order
RECURSIVE SortByRatingReversed(_)
SortByRatingReversed(s) ==
    IF s = <<>> THEN <<>>
    ELSE LET i == CHOOSE i \in 1..Len(s) :
                     /\ \A j \in 1..Len(s) : s[j].rating <= s[i].rating
                     /\ \A j \in (i + 1)..Len(s) : s[j].rating < s[i].rating
         IN  <<s[i]>> \o SortByRatingReversed(SubSeq(s, 1, i - 1) \o SubSeq(s, i + 1, Len(s)))

\* list.sort(key=rating, reverse=True): descending, equal ratings keep their order
RECURSIVE SortByRating(_)
SortByRating(s) ==
    IF s = <<>> THEN <<>>
    ELSE LET i == CHOOSE i \in 1..Len(s) :
                     /\ \A j \in 1..Len(s) : s[j].rating <= s[i].rating
                     /\ \A j \in 1..(i - 1) : s[j].rating < s[i].rating
         IN  <<s[i]>> \o SortByRating(SubSeq(s, 1, i - 1) \o SubSeq(s, i + 1, Len(s)))

\* a shortlist that is widened whenever it has fewer than 3 entries
TopArtistsFilledUp(artists, ent_budget, pref_cats) ==
    Only({ IF Len(top_artists) < 3
        THEN Take(top_artists \o
                  SortByRating(SelectSeq(artists,
                      LAMBDA a : a.price_min <= ent_budget
                                 /\ a \notin Range(top_artists))), 3)
        ELSE top_artists
        : top_artists \in {Take(SortByRating(SelectSeq(artists, LAMBDA a : a.price_min <= ent_budget /\ a.category \in pref_cats)), 3)} })

\* the shortlist (src/app.py 457-468)
TopArtists(artists, ent_budget, pref_cats) ==
    Only({ IF Len(top_artists) < 2
        THEN Take(top_artists \o
                  SortByRating(SelectSeq(artists,
                      LAMBDA a : a.price_min <= ent_budget
                                 /\ a \notin Range(top_artists))), 3)
        ELSE top_artists
        : top_artists \in {Take(SortByRating(SelectSeq(artists, LAMBDA a : a.price_min <= ent_budget /\ a.category \in pref_cats)), 3)} })

generate_event_plan(event_name, budget, event_type) ==
    Only({ Only({ IF load_artists.raised THEN Raise
        ELSE Value([event_name           |-> event_name,
                    event_type           |-> event_type,
                    total_budget         |-> budget,
                    breakdown            |-> breakdown,
                    artists              |->
                        TopArtists(artists_file, ent_budget,
                                   ARTIST_CATEGORY_FOR_EVENT[event_type]),
                    entertainment_budget |-> ent_budget])
        : ent_budget \in {EntBudget(breakdown, budget)} })
        : breakdown \in {Breakdown(BUDGET_TEMPLATES[event_type], budget)} })

(***************************************************************************)
(* Response helpers (src/app.py 712-737).  The response text is kept as    *)
(* its variable parts: one percentage per match and the filter notes.      *)
(***************************************************************************)
\* int(score * 100): truncation toward zero
IntTimes100(score) == IF score >= 0 THEN score \div 10 ELSE -((-score) \div 10)

\* the percentage without its cap
MatchPctUncapped(score) == IntTimes100(score)

\* min(int(score * 100), 99)
MatchPct(score) == Min(IntTimes100(score), 99)

_format_cards(matches) ==
    [j \in 1..Len(matches) |->
        [id          |-> matches[j].artist.id,
         category    |-> matches[j].artist.category,
         location    |-> matches[j].artist.location,
         rating      |-> matches[j].artist.rating,
         price_min   |-> matches[j].artist.price_min,
         match_score |-> MatchPct(matches[j].score)]]

_build_artist_response(query, matches, filters) ==
    IF matches = <<>> THEN [found |-> FALSE]
    ELSE [found |-> TRUE,
          pcts  |-> [j \in 1..Len(matches) |-> MatchPct(matches[j].score)],
          notes |-> SelectSeq(<<"max_budget", "city", "category">>,
                              LAMBDA k : HasKey(filters, k))]

(***************************************************************************)
(* plan_chat (src/app.py 622-665) and ai_chat (src/app.py 667-680)         *)
(***************************************************************************)
PromptResponse == [type |-> "text", response |-> "Please describe your event and budget!"]

ErrorResponse == [type |-> "text", response |-> "Something went wrong. Please try again."]

\* what the text classifier makes of the message field of a request
Classify(raw) ==
    Only({ Only({ Only({ [message    |-> message,
         budget     |-> extract_budget_from_text(message),
         is_plan    |-> is_event_plan_request(message),
         event_name |-> event_name,
         event_type |-> detect_event_type(typed),
         filters    |-> extract_filters(message)]
        : typed \in {message \o <<" ">> \o event_name} })
        : event_name \in {extract_event_name(message)} })
        : message \in {strip(raw)} })

\* PATH 1 of plan_chat is taken
IsPlanPath(req) == req.is_plan /\ req.budget # None /\ req.budget # 0

\* the request reaches rag_search, which embeds the query
NeedsRanking(req) == req.message # <<>> /\ ~IsPlanPath(req)

\* the cards of an event plan: no match score
PlanCards(artists) ==
    [j \in 1..Len(artists) |->
        [id |-> artists[j].id, category |-> artists[j].category,
         location |-> artists[j].location, rating |-> artists[j].rating,
         price_min |-> artists[j].price_min]]

\* the "event_plan" response (lines 636-651)
PlanResponse(plan) ==
    [type                 |-> "event_plan",
     event_name           |-> plan.event_name,
     event_type           |-> plan.event_type,
     total_budget         |-> plan.total_budget,
     breakdown            |-> plan.breakdown,
     entertainment_budget |-> plan.entertainment_budget,
     artists              |-> PlanCards(plan.artists)]

\* the "artists" response (lines 655-660); matches is kept to read the cards against
ArtistsResponse(message, found) ==
    [type     |-> "artists",
     response |-> _build_artist_response(message, found.results, found.filters),
     artists  |-> _format_cards(found.results),
     matches  |-> found.results]

\* req is Classify(message field); ranking is <<scores, argsort>>
plan_chat(req, ranking) ==
    IF req.message = <<>> THEN PromptResponse
    ELSE IF IsPlanPath(req)
    THEN Only({ IF plan.raised THEN ErrorResponse ELSE PlanResponse(plan.value)
        : plan \in {generate_event_plan(req.event_name, req.budget, req.event_type)} })
    ELSE Only({ IF found.raised THEN ErrorResponse
             ELSE ArtistsResponse(req.message, found.value)
        : found \in {rag_search(req.filters, 3, ranking[1], ranking[2])} })

\* matches is kept to read the cards against
ai_chat(req, ranking) ==
    IF req.message = <<>> THEN [response |-> "Please enter a message.", artists |-> <<>>]
    ELSE Only({ IF found.raised
             THEN [response |-> "Error. Please try again.", artists |-> <<>>]
             ELSE [response |-> _build_artist_response(req.message, found.value.results,
                                                       found.value.filters),
                   artists  |-> _format_cards(found.value.results),
                   matches  |-> found.value.results]
        : found \in {rag_search(req.filters, 3, ranking[1], ranking[2])} })

(***************************************************************************)
(* build_profile, POST (src/app.py 581-608)                                *)
(***************************************************************************)
\* str.split("-")[0]
FirstPart(s) ==
    IF \E i \in 1..Len(s) : s[i] = "-"
    THEN SubSeq(s, 1, (CHOOSE i \in 1..Len(s) :
                          s[i] = "-" /\ \A j \in 1..(i - 1) : s[j] # "-") - 1)
    ELSE s

\* str.isdigit()
isdigit(s) == s # <<>> /\ \A i \in 1..Len(s) : IsDigit(s[i])

MaxId(artists) ==
    CHOOSE m \in {artists[i].id : i \in 1..Len(artists)} :
        \A i \in 1..Len(artists) : artists[i].id <= m

\* an identifier allocated by counting the records
NewIdByCount(artists) == Len(artists) + 1

\* max(a["id"] for a in artists) + 1 if artists else 1
NewId(artists) == IF artists # <<>> THEN MaxId(artists) + 1 ELSE 1

NewArtist(artists, form) ==
    [id        |-> NewId(artists),
     category  |-> form.category,
     location  |-> form.city \o <<","," ">> \o form.location,
     price_min |-> IF isdigit(FirstPart(form.price_range))
                   THEN int(FirstPart(form.price_range)) ELSE 0,
     rating    |-> 0]

(***************************************************************************)
(* Inputs.                                                                 *)
(***************************************************************************)
\* records of the shipped catalog: category, location, price_min, rating
SeedKinds ==
    << Artist(0, <<"S","i","n","g","e","r">>, <<"C","h","i","c","a","g","o">>, <<"I","L">>, 1500, 49),
       Artist(0, <<"D","J">>, <<"M","i","a","m","i">>, <<"F","L">>, 3000, 45),
       Artist(0, <<"S","i","n","g","e","r">>, <<"C","h","i","c","a","g","o">>, <<"I","L">>, 4000, 49) >>

\* the catalog made of the given kinds, with identifiers 1, 2, ...
Catalog(kinds) == [i \in 1..Len(kinds) |-> [SeedKinds[kinds[i]] EXCEPT !.id = i]]

\* the catalogs the service is started on
SeedCatalogs ==
    {Catalog(<<>>), Catalog(<<1>>), Catalog(<<2, 3, 1>>), Catalog(<<2, 3, 1, 2>>)}

\* the forms posted to /build-profile
Forms ==
    { [category |-> <<"s","i","n","g","e","r">>, city |-> <<"C","h","i","c","a","g","o">>, location |-> <<"I","L">>,
       price_range |-> <<"1","0","0","0","-","2","0","0","0">>],
      [category |-> <<"D","J">>, city |-> <<"M","i","a","m","i">>, location |-> <<"F","L">>,
       price_range |-> <<"c","h","e","a","p">>] }

\* the queries rag_search is called with
Queries ==
    { <<"f","i","n","d"," ","m","e"," ","a"," ","p","e","r","f","o","r","m","e","r">>, <<"s","i","n","g","e","r"," ","i","n"," ","c","h","i","c","a","g","o"," ","u","n","d","e","r"," ","$","2","k">>, <<"d","j"," ","i","n"," ","m","i","a","m","i">> }

\* the message fields posted to /plan-chat and /ai-chat
Messages ==
    { <<>>, <<" ">>, <<"f","i","n","d"," ","m","e"," ","a"," ","s","i","n","g","e","r">>, <<"s","i","n","g","e","r"," ","i","n"," ","c","h","i","c","a","g","o"," ","u","n","d","e","r"," ","$","2","k">>,
      <<"h","e","l","p"," ","m","e"," ","p","l","a","n"," ","a"," ","w","e","d","d","i","n","g"," ","w","i","t","h"," ","$","5","0","0","0">>, <<"p","l","a","n"," ","m","y"," ","b","i","r","t","h","d","a","y"," ","p","a","r","t","y">>,
      <<"$","5","0"," ","w","e","d","d","i","n","g">>, <<"c","o","r","p","o","r","a","t","e"," ","g","a","l","a"," ","b","u","d","g","e","t"," ","2","0",",","0","0","0">> }

(***************************************************************************)
(* The service: startup, then one request at a time.                       *)
(***************************************************************************)
Init ==
    /\ artists_file \in SeedCatalogs
    /\ file_ok \in BOOLEAN
    /\ model_ok \in BOOLEAN
    /\ phase = "boot"
    /\ index_built = FALSE
    /\ artists_for_rag = <<>>
    /\ op = "idle"
    /\ arg = <<>>
    /\ ret = <<>>
    /\ users_file = <<>>
    /\ requests = NoRequests

Idle == phase = "serving" /\ op = "idle"

\* build_index (src/app.py 104-118), called once by the startup block
build_index(faiss_ok) ==
    IF faiss_ok /\ ~load_artists.raised /\ model_ok
    THEN /\ index_built' = TRUE
         /\ artists_for_rag' = artists_file
    ELSE UNCHANGED <<index_built, artists_for_rag>>

Startup ==
    /\ phase = "boot"
    /\ \E faiss_ok \in BOOLEAN : build_index(faiss_ok)
    /\ phase' = "serving"
    /\ UNCHANGED <<artists_file, file_ok, model_ok, op, arg, ret,
                 users_file, requests>>

\* a build_profile that also adds the new record to the snapshot of the index
BuildProfileReindex ==
    /\ Idle
    /\ Len(artists_file) < MaxCatalog
    /\ \E form \in Forms :
          /\ op' = "build_profile"
          /\ arg' = form
          /\ IF load_artists.raised
             THEN /\ ret' = [status |-> 500]
                  /\ UNCHANGED <<artists_file, artists_for_rag>>
             ELSE /\ artists_file' = Append(artists_file, NewArtist(artists_file, form))
                  /\ artists_for_rag' =
                        IF index_built
                        THEN Append(artists_for_rag, NewArtist(artists_file, form))
                        ELSE artists_for_rag
                  /\ ret' = [status |-> 302, artist_id |-> NewId(artists_file)]
    /\ UNCHANGED <<file_ok, model_ok, phase, index_built,
                 users_file, requests>>

BuildProfile ==
    /\ Idle
    /\ Len(artists_file) < MaxCatalog
    /\ \E form \in Forms :
          /\ op' = "build_profile"
          /\ arg' = form
          /\ IF load_artists.raised
             THEN /\ ret' = [status |-> 500]
                  /\ UNCHANGED artists_file
             ELSE /\ artists_file' = Append(artists_file, NewArtist(artists_file, form))
                  /\ ret' = [status |-> 302, artist_id |-> NewId(artists_file)]
    /\ UNCHANGED <<file_ok, model_ok, phase, index_built, artists_for_rag,
                 users_file, requests>>

RagSearch ==
    /\ Idle
    /\ \E query \in Queries, top_k \in 1..MaxTopK :
       \E filters \in {extract_filters(query)} :
       \E ranking \in Rankings :
          /\ op' = "rag_search"
          /\ arg' = [query |-> query, top_k |-> top_k,
                     scores |-> ranking[1], argsort |-> ranking[2]]
          /\ ret' = rag_search(filters, top_k, ranking[1], ranking[2])
    /\ UNCHANGED <<artists_file, file_ok, model_ok, phase, index_built, artists_for_rag,
                 users_file, requests>>

CosineSearch ==
    /\ Idle
    /\ \E top_k \in 1..MaxTopK :
       \E ranking \in (IF model_ok /\ file_ok THEN RankingsOf(artists_file)
                       ELSE {NoRanking}) :
          /\ op' = "cosine_search"
          /\ arg' = [top_k |-> top_k, scores |-> ranking[1], argsort |-> ranking[2]]
          /\ ret' = cosine_search(ranking[1], ranking[2], top_k)
    /\ UNCHANGED <<artists_file, file_ok, model_ok, phase, index_built, artists_for_rag,
                 users_file, requests>>

PlanChat ==
    /\ Idle
    /\ \E raw \in Messages :
       \E req \in {Classify(raw)} :
       \E ranking \in (IF NeedsRanking(req) THEN Rankings ELSE {NoRanking}) :
          /\ op' = "plan_chat"
          /\ arg' = raw
          /\ ret' = plan_chat(req, ranking)
    /\ UNCHANGED <<artists_file, file_ok, model_ok, phase, index_built, artists_for_rag,
                 users_file, requests>>

AiChat ==
    /\ Idle
    /\ \E raw \in Messages :
       \E req \in {Classify(raw)} :
       \E ranking \in (IF req.message # <<>> THEN Rankings ELSE {NoRanking}) :
          /\ op' = "ai_chat"
          /\ arg' = raw
          /\ ret' = ai_chat(req, ranking)
    /\ UNCHANGED <<artists_file, file_ok, model_ok, phase, index_built, artists_for_rag,
                 users_file, requests>>

\* the response is sent and the next request can be served
Return ==
    /\ op # "idle"
    /\ op' = "idle"
    /\ arg' = <<>>
    /\ ret' = <<>>
    /\ UNCHANGED <<artists_file, file_ok, model_ok, phase, index_built, artists_for_rag,
                 users_file, requests>>

Next ==
    \/ Startup
    \/ BuildProfile
    \/ RagSearch
    \/ CosineSearch
    \/ PlanChat
    \/ AiChat
    \/ Return

Spec == Init /\ [][Next]_vars

(***************************************************************************)
(* The text classifier on its own: every text made of at most MaxFrags of  *)
(* the fragments, and the examples of the documentation.                   *)
(***************************************************************************)
Fragments ==
    << <<"$">>, <<"1",",","2">>, <<"5","0">>, <<"7">>, <<"k">>, <<"K">>, <<".">>, <<" ">>, <<"b","u","d","g","e","t"," ">>, <<"o","f"," ">>, <<"u","s","d">>,
       <<"w","e","d","d","i","n","g">>, <<"C","o","r","p","o","r","a","t","e">>, <<"p","a","r","t","y">>, <<"p","l","a","n">>, <<"f","e","s","t">>, <<"c","h","i","c","a","g","o">>, <<"D","J">>,
       <<"f","o","r"," ","a"," ">>, <<"h","e","l","p"," ","m","e"," ">> >>

RECURSIVE TextsOf(_)
TextsOf(n) ==
    IF n = 0 THEN {<<>>}
    ELSE Only({ shorter \cup {t \o Fragments[i] : t \in shorter, i \in 1..Len(Fragments)}
        : shorter \in {TextsOf(n - 1)} })

ExampleTexts ==
    { <<"$","2",",","5","0","0"," ","b","u","d","g","e","t">>, <<"2",".","5","k"," ","f","o","r"," ","t","h","e"," ","e","v","e","n","t">>, <<"$","5","0">>,
      <<"p","l","a","n","n","i","n","g"," ","o","u","r"," ","c","o","r","p","o","r","a","t","e"," ","w","e","d","d","i","n","g"," ","p","a","r","t","y">>, <<"h","e","l","p"," ","m","e"," ","p","l","a","n"," ","a"," ","w","e","d","d","i","n","g"," ","w","i","t","h"," ","$","5","0","0","0">>,
      <<"f","i","n","d"," ","m","e"," ","a"," ","s","i","n","g","e","r">> }

Texts == TextsOf(MaxFrags) \cup ExampleTexts

\* the service is up, without an index, on an empty catalog
InitText ==
    /\ artists_file = <<>>
    /\ file_ok = TRUE
    /\ model_ok = TRUE
    /\ phase = "serving"
    /\ index_built = FALSE
    /\ artists_for_rag = <<>>
    /\ op = "idle"
    /\ arg = <<>>
    /\ ret = <<>>
    /\ users_file = <<>>
    /\ requests = NoRequests

Apply(name, text, result) ==
    /\ op' = name
    /\ arg' = text
    /\ ret' = result
    /\ UNCHANGED <<artists_file, file_ok, model_ok, phase, index_built, artists_for_rag,
                 users_file, requests>>

ExtractBudget ==
    Idle /\ \E text \in Texts :
        Apply("extract_budget_from_text", text, extract_budget_from_text(text))

DetectEventType ==
    Idle /\ \E text \in Texts :
        Apply("detect_event_type", text, detect_event_type(text))

IsEventPlanRequest ==
    Idle /\ \E text \in Texts :
        Apply("is_event_plan_request", text, is_event_plan_request(text))

ExtractFilters ==
    Idle /\ \E text \in Texts :
        Apply("extract_filters", text, extract_filters(text))

ExtractEventName ==
    Idle /\ \E text \in Texts :
        Apply("extract_event_name", text, extract_event_name(text))

NextText ==
    \/ ExtractBudget
    \/ DetectEventType
    \/ IsEventPlanRequest
    \/ ExtractFilters
    \/ ExtractEventName
    \/ Return

SpecText == InitText /\ [][NextText]_vars

(***************************************************************************)
(* The planning engine on its own: generate_event_plan as plan_chat calls  *)
(* it (src/app.py 633-634), on every budget from 100 to MaxBudget and the  *)
(* budgets of the documentation.                                           *)
(***************************************************************************)
\* The largest of the consecutive budgets a plan is made for.
MaxBudget == 220

Budgets == 100..MaxBudget \cup {5000, 20000}

\* one message per event type
PlanQueries ==
    { <<"p","l","a","n"," ","a"," ","w","e","d","d","i","n","g">>, <<"c","o","m","p","a","n","y"," ","l","a","u","n","c","h">>, <<"p","l","a","n","n","i","n","g"," ","m","y"," ","b","d","a","y"," ","b","a","s","h"," ","w","i","t","h"," ","f","r","i","e","n","d","s">>,
      <<"m","u","s","i","c"," ","f","e","s","t">>, <<"c","h","a","r","i","t","y"," ","g","a","l","a">>, <<"l","i","v","e"," ","s","h","o","w">>, <<"h","o","u","s","e"," ","p","a","r","t","y">>, <<"h","e","l","p"," ","m","e"," ","o","r","g","a","n","i","z","e"," ","i","t">> }

\* the service is up, without an index
InitPlan ==
    /\ artists_file \in SeedCatalogs
    /\ file_ok \in BOOLEAN
    /\ model_ok = TRUE
    /\ phase = "serving"
    /\ index_built = FALSE
    /\ artists_for_rag = <<>>
    /\ op = "idle"
    /\ arg = <<>>
    /\ ret = <<>>
    /\ users_file = <<>>
    /\ requests = NoRequests

GenerateEventPlan ==
    /\ Idle
    /\ \E query \in PlanQueries :
       \E event_name \in {extract_event_name(query)} :
       \E event_type \in {detect_event_type(query \o <<" ">> \o event_name)} :
       \E budget \in Budgets :
          /\ op' = "generate_event_plan"
          /\ arg' = [event_name |-> event_name, budget |-> budget, query |-> query]
          /\ ret' = generate_event_plan(event_name, budget, event_type)
    /\ UNCHANGED <<artists_file, file_ok, model_ok, phase, index_built, artists_for_rag,
                 users_file, requests>>

NextPlan ==
    \/ GenerateEventPlan
    \/ Return

SpecPlan == InitPlan /\ [][NextPlan]_vars

(***************************************************************************)
(* Profile creation on its own (src/app.py 581-608): requests served one   *)
(* at a time on a catalog whose identifiers are distinct but neither       *)
(* consecutive nor ordered.                                                *)
(***************************************************************************)
\* The largest identifier of a record of the initial catalog.
MaxSeedId == 4

\* The largest number of records of the initial catalog.
MaxSeedLen == 2

IsInjective(s) == \A i, j \in 1..Len(s) : s[i] = s[j] => i = j

\* the catalogs of records with the given identifiers
IdCatalogs ==
    { [i \in 1..Len(ids) |-> [SeedKinds[1 + (i % Len(SeedKinds))] EXCEPT !.id = ids[i]]] :
      ids \in { s \in UNION {[1..n -> 1..MaxSeedId] : n \in 0..MaxSeedLen} :
                 IsInjective(s) } }

InitProfiles ==
    /\ artists_file \in IdCatalogs
    /\ file_ok \in BOOLEAN
    /\ model_ok = TRUE
    /\ phase = "serving"
    /\ index_built = FALSE
    /\ artists_for_rag = <<>>
    /\ op = "idle"
    /\ arg = <<>>
    /\ ret = <<>>
    /\ users_file = <<>>
    /\ requests = NoRequests

NextProfiles ==
    \/ BuildProfile
    \/ Return

SpecProfiles == InitProfiles /\ [][NextProfiles]_vars

(***************************************************************************)
(* Two POST /build-profile requests served concurrently.  The handler      *)
(* reads the file (line 584), works on its own copy of the list and        *)
(* writes the file (line 605); nothing orders the two steps of one request *)
(* against those of the other.  A finished request keeps the list it had   *)
(* loaded and the identifier of its redirect.                              *)
(***************************************************************************)
\* lines 584-585: artists = load_artists(); new_id = ...
LoadArtists(w) ==
    /\ requests[w].pc = "start"
    /\ \E form \in Forms :
          requests' =
              [requests EXCEPT ![w] =
                  IF load_artists.raised
                  THEN [pc |-> "done", status |-> 500]
                  ELSE [pc |-> "loaded", form |-> form,
                        artists |-> load_artists.value,
                        new_id |-> NewId(load_artists.value)]]
    /\ UNCHANGED <<artists_file, file_ok, model_ok, phase, index_built,
                   artists_for_rag, op, arg, ret, users_file>>

\* a save that appends the new record to the list the file holds at that time
SaveArtistsMerged(w) ==
    /\ requests[w].pc = "loaded"
    /\ artists_file' =
           Append(artists_file, NewArtist(requests[w].artists, requests[w].form))
    /\ requests' =
           [requests EXCEPT ![w] =
               [pc |-> "done", status |-> 302, form |-> requests[w].form,
                artists |-> requests[w].artists, artist_id |-> requests[w].new_id]]
    /\ UNCHANGED <<file_ok, model_ok, phase, index_built, artists_for_rag,
                   op, arg, ret, users_file>>

\* lines 586-606: artists.append(new_artist); save_artists(artists); redirect
SaveArtists(w) ==
    /\ requests[w].pc = "loaded"
    /\ artists_file' =
           Append(requests[w].artists, NewArtist(requests[w].artists, requests[w].form))
    /\ requests' =
           [requests EXCEPT ![w] =
               [pc |-> "done", status |-> 302, form |-> requests[w].form,
                artists |-> requests[w].artists, artist_id |-> requests[w].new_id]]
    /\ UNCHANGED <<file_ok, model_ok, phase, index_built, artists_for_rag,
                   op, arg, ret, users_file>>

InitRace ==
    /\ artists_file \in SeedCatalogs
    /\ file_ok \in BOOLEAN
    /\ model_ok = TRUE
    /\ phase = "serving"
    /\ index_built = FALSE
    /\ artists_for_rag = <<>>
    /\ op = "idle"
    /\ arg = <<>>
    /\ ret = <<>>
    /\ users_file = <<>>
    /\ requests = NoRequests

NextRace ==
    \/ \E w \in Requests : LoadArtists(w)
    \/ \E w \in Requests : SaveArtists(w)

SpecRace == InitRace /\ [][NextRace]_vars

(***************************************************************************)
(* The account store (src/app.py 24-58).  An account keeps id, name,       *)
(* email, role and avatar (the number in its URL); the password hash and   *)
(* the creation time are not read by register_user and are left out.  An   *)
(* optional value is a sequence of at most one element, <<>> being None.   *)
(***************************************************************************)
\* Accounts are registered while users.json holds fewer accounts than this.
MaxUsers == 3

\* a lookup that compares the emails as they are written
find_user_by_email_exact(users, email) ==
    Take(SelectSeq(users, LAMBDA u : u.email = email), 1)

\* next((u for u in users if u["email"].lower() == email.lower()), None)
find_user_by_email(users, email) ==
    Take(SelectSeq(users, LAMBDA u : lower(u.email) = lower(email)), 1)

\* max((u["id"] for u in users), default=0)
MaxUserId(users) ==
    IF users = <<>> THEN 0
    ELSE CHOOSE m \in {users[i].id : i \in 1..Len(users)} :
            \A i \in 1..Len(users) : users[i].id <= m

\* the pair (user, error) register_user returns, and the list it leaves stored
register_user(users, name, email, role) ==
    IF find_user_by_email(users, email) # <<>>
    THEN [user  |-> <<>>,
          error |-> <<"A","n"," ","a","c","c","o","u","n","t"," ","w","i","t","h"," ","t","h","i","s"," ","e","m","a","i","l"," ","a","l","r","e","a","d","y"," ","e","x","i","s","t","s",".">>,
          users |-> users]
    ELSE Only({ [user |-> <<user>>, error |-> <<>>, users |-> Append(users, user)]
        : user \in {[id     |-> MaxUserId(users) + 1,
                     name   |-> name,
                     email  |-> email,
                     role   |-> role,
                     avatar |-> MaxUserId(users) + 1 + 50]} })

\* the forms posted to /signup
Names == { <<"A","n","n">> }

Emails == { <<"a","@","x",".","i","o">>, <<"A","@","X",".","i","o">>, <<"b","@","x",".","i","o">>, <<"B","@","x",".","i","o">>, <<"c","@","x",".","i","o">> }

Roles == { <<"h","i","r","e","r">>, <<"a","r","t","i","s","t">> }

InitUsers ==
    /\ artists_file = <<>>
    /\ file_ok = TRUE
    /\ model_ok = TRUE
    /\ phase = "serving"
    /\ index_built = FALSE
    /\ artists_for_rag = <<>>
    /\ op = "idle"
    /\ arg = <<>>
    /\ ret = <<>>
    /\ users_file = <<>>
    /\ requests = NoRequests

RegisterUser ==
    /\ Idle
    /\ Len(users_file) < MaxUsers
    /\ \E name \in Names, email \in Emails, role \in Roles :
       \E result \in {register_user(users_file, name, email, role)} :
          /\ op' = "register_user"
          /\ arg' = [name |-> name, email |-> email, role |-> role]
          /\ ret' = [user |-> result.user, error |-> result.error]
          /\ users_file' = result.users
    /\ UNCHANGED <<artists_file, file_ok, model_ok, phase, index_built,
                   artists_for_rag, requests>>

NextUsers ==
    \/ RegisterUser
    \/ Return

SpecUsers == InitUsers /\ [][NextUsers]_vars

(***************************************************************************)
(* Properties of the retrieval engine.                                     *)
(***************************************************************************)
\* a provider satisfies every filter of the set
Satisfies(artist, filters) ==
    /\ HasKey(filters, "max_budget") => artist.price_min <= filters["max_budget"]
    /\ HasKey(filters, "city") => Contains(lower(artist.location), filters["city"])
    /\ HasKey(filters, "category") => lower(artist.category) = lower(filters["category"])

\* rag_search has returned from its try block
SearchSucceeded == op = "rag_search" /\ ~ret.raised /\ ~ret.value.degraded

\* the providers the search ranked before filtering: the best min(3 top_k, size)
Candidates ==
    {Ranked[arg.argsort[Len(arg.argsort) - j + 1]] :
        j \in 1..Min(3 * arg.top_k, Len(arg.argsort))}

AllSatisfy(results, filters) ==
    \A j \in 1..Len(results) : Satisfies(results[j].artist, filters)

\* C1 as amended: on the non-failing path of rag_search, if the filter set
\* extracted from the query is non-empty and at least one of the ranked
\* candidates (the best min(3 top_k, size) by score) satisfies every filter,
\* then every returned provider satisfies every filter, and the list has at
\* most top_k entries.
RagSearchFiltersCandidates ==
    SearchSucceeded =>
        /\ Len(ret.value.results) <= arg.top_k
        /\ ( /\ DOMAIN extract_filters(arg.query) # {}
             /\ \E a \in Candidates : Satisfies(a, extract_filters(arg.query)) )
           => AllSatisfy(ret.value.results, extract_filters(arg.query))

\* C1 witness: a search with filters whose candidates hold a matching and a
\* non-matching provider
RagSearchFiltered ==
    /\ SearchSucceeded
    /\ DOMAIN extract_filters(arg.query) # {}
    /\ \E a \in Candidates : Satisfies(a, extract_filters(arg.query))
    /\ \E a \in Candidates : ~Satisfies(a, extract_filters(arg.query))
    /\ ret.value.results # <<>>

\* C1 as stated: on the non-failing path of rag_search, if the filter set is
\* non-empty and at least one provider of the catalog satisfies every filter,
\* then every returned provider satisfies every filter, and the list has at
\* most top_k entries.
RagSearchFiltersCatalog ==
    SearchSucceeded =>
        /\ Len(ret.value.results) <= arg.top_k
        /\ ( /\ DOMAIN extract_filters(arg.query) # {}
             /\ \E a \in Range(Ranked) : Satisfies(a, extract_filters(arg.query)) )
           => AllSatisfy(ret.value.results, extract_filters(arg.query))

\* embedding or ranking fails: the model fails, or the fallback backend cannot
\* read the catalog
RankingFails == ~model_ok \/ (~index_built /\ ~file_ok)

\* C2 as stated: rag_search never raises to its caller; for every failure
\* during embedding or ranking it returns the first top_k catalog entries in
\* storage order, each with score 0.5 (500 thousandths), and an empty filter set.
RagSearchNeverRaises ==
    op = "rag_search" =>
        /\ ~ret.raised
        /\ RankingFails =>
              /\ ret.value.results =
                    [j \in 1..Min(arg.top_k, Len(artists_file)) |->
                        [artist |-> artists_file[j], score |-> 500]]
              /\ DOMAIN ret.value.filters = {}

CosineReturned == op = "cosine_search" /\ ~ret.raised

\* the position of a record in the stored catalog
PositionOf(artist) == CHOOSE k \in 1..Len(artists_file) : artists_file[k] = artist

\* the result is min(k, size) distinct (provider, score) pairs of the catalog,
\* none of the providers left out scores higher than a returned one, and the
\* scores descend
IsTopByScore(result) ==
    /\ Len(result) = Min(arg.top_k, Len(artists_file))
    /\ \A j \in 1..Len(result) :
          \E i \in 1..Len(artists_file) :
              result[j] = [artist |-> artists_file[i], score |-> arg.scores[i]]
    /\ \A i, j \in 1..Len(result) :
          i < j => result[i].score >= result[j].score /\ result[i].artist # result[j].artist
    /\ \A i \in 1..Len(artists_file), j \in 1..Len(result) :
          (\A k \in 1..Len(result) : result[k].artist # artists_file[i])
              => arg.scores[i] <= result[j].score

PlanMade == op = "generate_event_plan" /\ ~ret.raised

\* a comes before b in descending order of rating, equal ratings in catalog order
RatedBefore(a, b) ==
    \/ a.rating > b.rating
    \/ a.rating = b.rating /\ PositionOf(a) < PositionOf(b)

\* the provider is of a category preferred for the event type of the plan
Preferred(artist) == artist.category \in ARTIST_CATEGORY_FOR_EVENT[ret.value.event_type]

IsAffordableShortlist(plan) ==
    /\ Len(plan.artists) <= 3
    /\ \A i \in 1..Len(plan.artists) :
          /\ plan.artists[i] \in Range(artists_file)
          /\ plan.artists[i].price_min <= plan.entertainment_budget

\* C4 as amended: the shortlist has at most 3 entries, every entry has
\* price_min <= the entertainment sub-budget, and the providers of a category
\* preferred for the event type come first, in descending order of rating with
\* equally rated entries in catalog order; other providers are listed only
\* when fewer than 2 preferred ones are affordable, after them, in descending
\* order of rating with equally rated entries in catalog order.
ShortlistPreferredFirst ==
    PlanMade =>
        /\ IsAffordableShortlist(ret.value)
        /\ \A i, j \in 1..Len(ret.value.artists) :
              i < j =>
                 /\ Preferred(ret.value.artists[j]) => Preferred(ret.value.artists[i])
                 /\ Preferred(ret.value.artists[i]) = Preferred(ret.value.artists[j])
                       => RatedBefore(ret.value.artists[i], ret.value.artists[j])
        /\ (\E i \in 1..Len(ret.value.artists) : ~Preferred(ret.value.artists[i]))
              => Cardinality({i \in 1..Len(ret.value.artists) :
                                 Preferred(ret.value.artists[i])}) < 2

\* C4 witness: a shortlist of three, widened beyond the preferred categories,
\* with two equally rated entries
ShortlistWidened ==
    /\ PlanMade
    /\ Len(ret.value.artists) = 3
    /\ \E i \in 1..3 : ~Preferred(ret.value.artists[i])
    /\ \E i, j \in 1..3 : i # j /\ ret.value.artists[i].rating = ret.value.artists[j].rating

\* C4 as stated: the shortlist has at most 3 entries, every entry has
\* price_min <= the entertainment sub-budget, and the entries are in descending
\* order of rating with equally rated entries in catalog order.
ShortlistSortedByRating ==
    PlanMade =>
        /\ IsAffordableShortlist(ret.value)
        /\ \A i, j \in 1..Len(ret.value.artists) :
              i < j => RatedBefore(ret.value.artists[i], ret.value.artists[j])

RECURSIVE SumAmounts(_)
SumAmounts(breakdown) ==
    IF breakdown = <<>> THEN 0
    ELSE breakdown[1].amount + SumAmounts(Tail(breakdown))

\* C8: for every event type and budget B >= 100 the breakdown gives each
\* category of the template the integer nearest to B x weight, and the sum of
\* the allocations differs from B by at most the number of categories.
BreakdownRoundsEachShare ==
    (PlanMade /\ ret.value.total_budget >= 100) =>
        /\ Len(ret.value.breakdown) = Len(BUDGET_TEMPLATES[ret.value.event_type])
        /\ \A i \in 1..Len(ret.value.breakdown) :
              /\ ret.value.breakdown[i].label =
                    BUDGET_TEMPLATES[ret.value.event_type][i].label
              /\ Abs(100 * ret.value.breakdown[i].amount
                     - ret.value.total_budget
                         * BUDGET_TEMPLATES[ret.value.event_type][i].pct) <= 50
        /\ Abs(SumAmounts(ret.value.breakdown) - ret.value.total_budget)
              <= Len(ret.value.breakdown)

\* C8 witness: a plan whose allocations do not add up to the budget, one of
\* them rounded up
BreakdownDrifts ==
    /\ PlanMade
    /\ ret.value.total_budget >= 100
    /\ SumAmounts(ret.value.breakdown) # ret.value.total_budget
    /\ \E i \in 1..Len(ret.value.breakdown) :
          100 * ret.value.breakdown[i].amount
              > ret.value.total_budget * BUDGET_TEMPLATES[ret.value.event_type][i].pct

(***************************************************************************)
(* Properties of the text classifier.                                      *)
(***************************************************************************)
\* C6 as stated: extract_budget_from_text gives 2500 for "$2,500 budget",
\* 2500 for "2.5k for the event" and no budget for "$50"; for every text the
\* result is either absent or an integer >= 100.
BudgetExamples ==
    op = "extract_budget_from_text" =>
        /\ arg = <<"$","2",",","5","0","0"," ","b","u","d","g","e","t">> => ret = 2500
        /\ arg = <<"2",".","5","k"," ","f","o","r"," ","t","h","e"," ","e","v","e","n","t">> => ret = 2500
        /\ arg = <<"$","5","0">> => ret = None
        /\ ret = None \/ ret >= 100

Priority == <<"wedding", "corporate", "birthday", "festival", "gala", "concert", "party">>

KeywordsOf(type) ==
    CASE type = "wedding"   -> WeddingWords
      [] type = "corporate" -> CorporateWords
      [] type = "birthday"  -> BirthdayWords
      [] type = "festival"  -> FestivalWords
      [] type = "gala"      -> GalaWords
      [] type = "concert"   -> ConcertWords
      [] type = "party"     -> PartyWords

\* a keyword of the type occurs in the lower-cased text
Occurs(type, text) ==
    \E n \in 1..Len(KeywordsOf(type)) : Contains(lower(text), KeywordsOf(type)[n])

\* C9: detect_event_type returns the highest-priority type, in the order
\* wedding > corporate > birthday > festival > gala > concert > party, that
\* has a keyword occurring in the lower-cased text, and "default" when none
\* has; "planning our corporate wedding party" yields "wedding".
HighestPriorityTypeWins ==
    op = "detect_event_type" =>
        /\ \A k \in 1..Len(Priority) :
              ret = Priority[k] <=>
                  /\ Occurs(Priority[k], arg)
                  /\ \A j \in 1..(k - 1) : ~Occurs(Priority[j], arg)
        /\ ret = "default" <=> \A k \in 1..Len(Priority) : ~Occurs(Priority[k], arg)
        /\ arg = <<"p","l","a","n","n","i","n","g"," ","o","u","r"," ","c","o","r","p","o","r","a","t","e"," ","w","e","d","d","i","n","g"," ","p","a","r","t","y">> => ret = "wedding"

\* C9 witness: the text with keywords of three types has been classified
SeveralTypesClassified ==
    /\ op = "detect_event_type"
    /\ arg = <<"p","l","a","n","n","i","n","g"," ","o","u","r"," ","c","o","r","p","o","r","a","t","e"," ","w","e","d","d","i","n","g"," ","p","a","r","t","y">>
    /\ ret = "wedding"

(***************************************************************************)
(* Properties of the chat routes.                                          *)
(***************************************************************************)
\* C7 as stated: plan_chat answers a missing or empty message with type
\* "text"; a non-empty message with type "event_plan" exactly when
\* is_event_plan_request holds and a budget is extracted, is_event_plan_request
\* holding exactly when (a planning and an event keyword occur) or (an event
\* keyword occurs and a budget is parseable); every other non-empty message
\* with type "artists".
PlanChatShapes ==
    op = "plan_chat" =>
        /\ is_event_plan_request(strip(arg)) <=>
              \/ AnyIn(plan_kw, lower(strip(arg))) /\ AnyIn(event_kw, lower(strip(arg)))
              \/ /\ AnyIn(event_kw, lower(strip(arg)))
                 /\ extract_budget_from_text(strip(arg)) # None
        /\ ret.type = IF strip(arg) = <<>> THEN "text"
                      ELSE IF /\ is_event_plan_request(strip(arg))
                              /\ extract_budget_from_text(strip(arg)) # None
                           THEN "event_plan"
                           ELSE "artists"

\* a chat route has answered with retrieval results
ChatAnswered == op \in {"plan_chat", "ai_chat"} /\ "matches" \in DOMAIN ret

\* score x 100 with its fraction dropped, scores being in thousandths
Truncated(score) == IF score >= 0 THEN score \div 10 ELSE -((-score) \div 10)

\* round(score x 100): the nearest integer, a half going to the even one
Rounded(score) ==
    IF score % 10 < 5 THEN score \div 10
    ELSE IF score % 10 > 5 THEN score \div 10 + 1
    ELSE IF (score \div 10) % 2 = 0 THEN score \div 10 ELSE score \div 10 + 1

\* the j-th card and the j-th percentage of the response text show pct, capped
ShownAs(j, pct) ==
    /\ ret.artists[j].match_score = Min(pct, 99)
    /\ ret.response.found /\ ret.response.pcts[j] = Min(pct, 99)

\* C10 as amended: for every retrieval result (provider, score) the match-score
\* percentage on the provider card and in the response text equals
\* min(int(score x 100), 99): the product with its fraction dropped, not rounded.
MatchScoreTruncates ==
    (ChatAnswered /\ ret.matches # <<>>) =>
        /\ Len(ret.artists) = Len(ret.matches)
        /\ \A j \in 1..Len(ret.matches) : ShownAs(j, Truncated(ret.matches[j].score))

\* C10 witness: a result of score 0.876 is shown as 87
MatchScoreShown ==
    /\ ChatAnswered
    /\ \E j \in 1..Len(ret.matches) :
          ret.matches[j].score = 876 /\ ret.artists[j].match_score = 87

\* C10 as stated: for every retrieval result (provider, score) the match-score
\* percentage on the provider card and in the response text equals
\* min(round(score x 100), 99).
MatchScoreRounds ==
    (ChatAnswered /\ ret.matches # <<>>) =>
        /\ Len(ret.artists) = Len(ret.matches)
        /\ \A j \in 1..Len(ret.matches) : ShownAs(j, Rounded(ret.matches[j].score))

(***************************************************************************)
(* C11: identifiers under profile creations executed one at a time         *)
(***************************************************************************)
DistinctIds(artists) ==
    \A i, j \in 1..Len(artists) : artists[i].id = artists[j].id => i = j

\* r has the maximum identifier of artists plus 1, or 1 if there is none
IsNextId(artists, r) ==
    IF artists = <<>> THEN r.id = 1
    ELSE /\ \A i \in 1..Len(artists) : artists[i].id < r.id
         /\ \E i \in 1..Len(artists) : artists[i].id + 1 = r.id

ProfileCreated == op = "build_profile" /\ ret.status = 302

\* C11: starting from a catalog of pairwise distinct identifiers, after any
\* sequence of profile creations executed one at a time the identifiers stay
\* pairwise distinct, and each creation leaves every existing record unchanged
\* and in place and appends exactly one record whose identifier is the maximum
\* existing identifier plus 1, or 1 when the catalog is empty.
CreationKeepsIdsDistinct ==
    /\ [](DistinctIds(artists_file))
    /\ [][ProfileCreated' =>
            /\ Len(artists_file') = Len(artists_file) + 1
            /\ SubSeq(artists_file', 1, Len(artists_file)) = artists_file
            /\ IsNextId(artists_file, artists_file'[Len(artists_file')])
            /\ ret'.artist_id = artists_file'[Len(artists_file')].id]_vars

\* C11 witness: a profile was created on a catalog whose identifiers were not
\* 1, 2, ..., so that the new identifier is not the number of records
ProfileCreatedAfterGap ==
    /\ ProfileCreated
    /\ Len(artists_file) >= 2
    /\ artists_file[Len(artists_file)].id > Len(artists_file)


(***************************************************************************)
(* C12: two concurrent profile creations                                   *)
(***************************************************************************)
BothCreated == \A w \in Requests : requests[w].pc = "done" /\ requests[w].status = 302

\* both requests loaded the file before either saved it
LoadsInterleaved == \A v, w \in Requests : requests[v].artists = requests[w].artists

\* the stored list holds exactly n records with the identifier id
HoldsTimes(id, n) ==
    Cardinality({i \in 1..Len(artists_file) : artists_file[i].id = id}) = n

\* C12: profile creation is an unsynchronised load / modify / save: when the
\* load and save steps of two concurrent profile creations interleave, both
\* are allocated the same identifier and the saved catalog contains only one
\* of the two new records (a lost update).
InterleavedCreationLosesUpdate ==
    (BothCreated /\ LoadsInterleaved) =>
        \A v, w \in Requests :
            /\ requests[v].artist_id = requests[w].artist_id
            /\ Len(artists_file) = Len(requests[w].artists) + 1
            /\ SubSeq(artists_file, 1, Len(requests[w].artists)) = requests[w].artists
            /\ HoldsTimes(requests[w].artist_id, 1)

\* C12 witness: both requests were redirected to the same identifier, their
\* forms differed, and the file holds one record more than before
LostUpdate ==
    /\ BothCreated
    /\ requests[1].artist_id = requests[2].artist_id
    /\ requests[1].form # requests[2].form
    /\ Len(artists_file) = Len(requests[1].artists) + 1
    /\ HoldsTimes(requests[1].artist_id, 1)

(***************************************************************************)
(* C13: filters are advisory in rag_search                                 *)
(***************************************************************************)
\* the ranking before filtering: the best min(3 top_k, size) providers with
\* their scores, the best first
UnfilteredRanking ==
    [j \in 1..Min(3 * arg.top_k, Len(arg.argsort)) |->
        [artist |-> Ranked[arg.argsort[Len(arg.argsort) - j + 1]],
         score  |-> arg.scores[arg.argsort[Len(arg.argsort) - j + 1]]]]

NoCandidateSatisfies ==
    \A a \in Candidates : ~Satisfies(a, extract_filters(arg.query))

\* C13: filters are advisory in rag_search: when no ranked candidate satisfies
\* the extracted filters the result is the first top_k entries of the
\* unfiltered ranking, and on the non-failing path the result is non-empty
\* whenever the ranking is non-empty and never longer than top_k.
FiltersAreAdvisory ==
    SearchSucceeded =>
        /\ NoCandidateSatisfies =>
              ret.value.results = Take(UnfilteredRanking, arg.top_k)
        /\ UnfilteredRanking # <<>> => ret.value.results # <<>>
        /\ Len(ret.value.results) <= arg.top_k

\* C13 witness: a search whose filters no ranked candidate satisfies returned
\* providers all the same
FiltersIgnored ==
    /\ SearchSucceeded
    /\ DOMAIN extract_filters(arg.query) # {}
    /\ Candidates # {}
    /\ NoCandidateSatisfies
    /\ ret.value.results # <<>>

(***************************************************************************)
(* C14: when the shortlist of generate_event_plan is widened               *)
(***************************************************************************)
Affordable(artist) == artist.price_min <= ret.value.entertainment_budget

\* the providers both of a preferred category and affordable
Eligible == {a \in Range(artists_file) : Preferred(a) /\ Affordable(a)}

\* the other affordable providers
OtherAffordable == {a \in Range(artists_file) : ~Preferred(a) /\ Affordable(a)}

\* the entries from..to of the shortlist are the highest rated of pool, in
\* descending order of rating
HighestRatedOf(pool, from, to) ==
    /\ \A i \in from..to :
          /\ ret.value.artists[i] \in pool
          /\ \A a \in pool \ Range(ret.value.artists) :
                a.rating <= ret.value.artists[i].rating
    /\ \A i, j \in from..to :
          i < j => ret.value.artists[i].rating >= ret.value.artists[j].rating

\* C14: the shortlist is widened exactly when fewer than 2 providers are both
\* in the event type's preferred categories and affordable: with 2 or more such
\* providers the shortlist is the up-to-3 highest rated of them and contains no
\* provider of a non-preferred category; with fewer than 2 it is those
\* providers followed by the highest-rated other affordable providers, up to 3
\* in total, and no provider appears twice.
ShortlistWidenedOnlyWhenShort ==
    PlanMade =>
        /\ \A i, j \in 1..Len(ret.value.artists) :
              ret.value.artists[i] = ret.value.artists[j] => i = j
        /\ IF Cardinality(Eligible) >= 2
           THEN /\ Len(ret.value.artists) = Min(3, Cardinality(Eligible))
                /\ HighestRatedOf(Eligible, 1, Len(ret.value.artists))
           ELSE /\ Len(ret.value.artists) =
                      Min(3, Cardinality(Eligible) + Cardinality(OtherAffordable))
                /\ HighestRatedOf(Eligible, 1, Cardinality(Eligible))
                /\ HighestRatedOf(OtherAffordable, Cardinality(Eligible) + 1,
                                  Len(ret.value.artists))

\* C14 witness: two affordable providers of preferred categories make the
\* whole shortlist although another affordable provider exists
ShortlistOfTwoNotWidened ==
    /\ PlanMade
    /\ Cardinality(Eligible) = 2
    /\ OtherAffordable # {}
    /\ Len(ret.value.artists) = 2

(***************************************************************************)
(* C15: the entertainment sub-budget                                       *)
(***************************************************************************)
\* the label contains "entertainment" or "artist", ignoring case
LabelMatches(label) ==
    \E word \in {<<"e","n","t","e","r","t","a","i","n","m","e","n","t">>, <<"a","r","t","i","s","t">>} : Contains(lower(label), word)

\* the positions of the breakdown entries whose label matches
MatchingEntries(breakdown) ==
    {i \in 1..Len(breakdown) : LabelMatches(breakdown[i].label)}

\* C15: for every event type and budget, the entertainment sub-budget of the
\* plan equals the allocation of the first breakdown entry (in template order)
\* whose label contains "entertainment" or "artist" ignoring case, and equals
\* round(budget x 0.20) when no label matches; for a wedding with budget 20000
\* it is 4000.
EntertainmentBudgetIsFirstMatch ==
    PlanMade =>
        /\ IF MatchingEntries(ret.value.breakdown) # {}
           THEN \E i \in MatchingEntries(ret.value.breakdown) :
                   /\ \A j \in MatchingEntries(ret.value.breakdown) : i <= j
                   /\ ret.value.entertainment_budget = ret.value.breakdown[i].amount
           ELSE ret.value.entertainment_budget = PyRoundMul(ret.value.total_budget, 20)
        /\ (ret.value.event_type = "wedding" /\ ret.value.total_budget = 20000)
              => ret.value.entertainment_budget = 4000

\* C15 witness: the plan of a wedding with budget 20000
WeddingEntertainmentBudget ==
    /\ PlanMade
    /\ ret.value.event_type = "wedding"
    /\ ret.value.total_budget = 20000
    /\ ret.value.entertainment_budget = 4000

(***************************************************************************)
(* C16: the account store under register_user calls made one at a time     *)
(***************************************************************************)
SameEmail(a, b) == lower(a) = lower(b)

NoDuplicateAccounts ==
    \A i, j \in 1..Len(users_file) :
        (SameEmail(users_file[i].email, users_file[j].email)
            \/ users_file[i].id = users_file[j].id) => i = j

\* the email is stored, in some letter case
IsStored(email) == \E i \in 1..Len(users_file) : SameEmail(users_file[i].email, email)

\* C16: after any sequence of register_user calls executed one at a time on an
\* initially empty account store, no two stored accounts have emails that are
\* equal ignoring case and all account ids are pairwise distinct; a
\* register_user call for an email already stored (in any letter case) returns
\* an error and leaves the account store unchanged.
RegisteredEmailsUnique ==
    /\ [](NoDuplicateAccounts)
    /\ [][(op' = "register_user" /\ IsStored(arg'.email)) =>
            /\ ret'.user = <<>>
            /\ ret'.error # <<>>
            /\ users_file' = users_file]_vars

\* C16 witness: a call for a stored email written in another letter case was
\* refused
OtherCaseRefused ==
    /\ op = "register_user"
    /\ ret.error # <<>>
    /\ IsStored(arg.email)
    /\ \A i \in 1..Len(users_file) : users_file[i].email # arg.email
====
